---- MODULE Spec2Model ----
(***************************************************************************)
(* Model of src/proxy_handler.py: class MultiProxyScholarly.                *)
(*                                                                         *)
(* Time is counted in ticks of 0.05 s, so that the 0.1 s floor of           *)
(* _wait_for_any_proxy is two ticks and a remaining cooldown can be         *)
(* shorter than the floor.  A ProxyGenerator object is identified by the    *)
(* number pg of the pool record that owns it (1 for the first record        *)
(* appended to valid_list, 2 for the second, ...); pg = 0 stands for None.  *)
(***************************************************************************)
EXTENDS Integers, Sequences, FiniteSets, TLC

(* ------------------------------ bounds --------------------------------- *)

\* longest candidate list handed to the constructor
MaxCandidates == 3
\* largest max_proxies handed to the constructor
MaxTarget == 3
\* largest min_interval / max_interval handed to the constructor (ticks)
MaxIntervalArg == 4
\* resolution of random.random(): it yields r / RandomSteps, 0 <= r < RandomSteps
RandomSteps == 4
\* largest max_retry handed to get_citation_count
MaxRetryArg == 3
\* number of get_citation_count calls followed in one session
MaxCalls == 2
\* how much longer than asked time.sleep may last (ticks)
MaxOversleep == 1
\* how long one remote query takes (ticks)
QueryTicks == 1
\* workers that may share one session object
MaxWorkers == 2
\* runs of the report script on one report file
MaxRuns == 2

(* -------------------------- program constants -------------------------- *)

\* r.status_code == 200
StatusOk == 200
\* max(min(wait_times), 0.1): 0.1 s in ticks
WaitFloor == 2
\* _pick_proxy_generator(self, max_pick_retry: int = 10)
MaxPickRetry == 10
\* the four sentinel return values of get_citation_count
AttemptsExhausted == -1
NoResultFound == -2
NoProxyAvailable == -3
PoolEmpty == -4

(* ------------------------------ universes ------------------------------ *)

Addresses == {"10.0.0.1:80", "10.0.0.2:80"}
Titles == {"Attention is all you need", "Adam: A method for stochastic optimization"}
Workers == 1 .. MaxWorkers
PgIds == 1 .. (MaxCandidates + 1)

\* what one candidate's check can end in: SingleProxy() returning False, the
\* probe raising, the probe answering another status, the probe answering 200
ProbeOutcomes ==
    { [single_proxy |-> FALSE, raised |-> FALSE, status_code |-> 0],
      [single_proxy |-> TRUE,  raised |-> TRUE,  status_code |-> 0],
      [single_proxy |-> TRUE,  raised |-> FALSE, status_code |-> 503],
      [single_proxy |-> TRUE,  raised |-> FALSE, status_code |-> StatusOk] }

\* what scholarly can do with one query: raise in search_pubs(), in next() or
\* in fill(), with or without the text "Cannot fetch from Google Scholar.";
\* yield no publication; or yield a publication with or without num_citations
RaiseOutcomes ==
    { [kind |-> "raise", step |-> s, refused |-> r,
       has_citations |-> FALSE, num_citations |-> 0] :
         s \in {"search_pubs", "next", "fill"}, r \in BOOLEAN }
EmptyOutcome ==
    [kind |-> "empty", step |-> "next", refused |-> FALSE,
     has_citations |-> FALSE, num_citations |-> 0]
PubOutcomes ==
    { [kind |-> "pub", step |-> "fill", refused |-> FALSE,
       has_citations |-> FALSE, num_citations |-> 0],
      [kind |-> "pub", step |-> "fill", refused |-> FALSE,
       has_citations |-> TRUE, num_citations |-> 50000] }
RemoteOutcomes == RaiseOutcomes \cup {EmptyOutcome} \cup PubOutcomes
\* what is remembered of an attempt's outcome: its kind and the publication
Seen(o) ==
    [kind |-> o.kind, has_citations |-> o.has_citations,
     num_citations |-> o.num_citations]
NoOutcome == [kind |-> "none", has_citations |-> FALSE, num_citations |-> 0]

NoneItem == [proxy_url |-> "", pg |-> 0, interval |-> 0, last_access |-> 0]

(* ------------------------------- helpers ------------------------------- *)

SeqsUpTo(S, n) == UNION { [1 .. k -> S] : k \in 0 .. n }

Range(s) == { s[i] : i \in 1 .. Len(s) }

MinOf(S) == CHOOSE x \in S : \A y \in S : x <= y

MaxOf(S) == CHOOSE x \in S : \A y \in S : x >= y

\* n / d rounded to the nearest tick (halves upward), n >= 0, d > 0
RoundDiv(n, d) == (2 * n + d) \div (2 * d)

\* random.shuffle(x): every reordering of the list
Shuffles(s) ==
    { [i \in 1 .. Len(s) |-> s[p[i]]] : p \in Permutations(1 .. Len(s)) }

\* random.uniform(a, b) = a + (b - a) * random.random(), the product rounded
\* to a representable value: the end point b is returned when a = b and can
\* be returned by rounding when a < b
Uniform(a, b) ==
    { a + RoundDiv((b - a) * r, RandomSteps) : r \in 0 .. (RandomSteps - 1) }

(* ------------------------------- state --------------------------------- *)

VARIABLES
    session,        \* "new" before __init__ has run, "ready" after it
    all_proxy_urls, \* the caller's list object handed to __init__
    max_proxies,    \* constructor argument
    min_interval,   \* constructor argument (ticks)
    max_interval,   \* constructor argument (ticks)
    probe_result,   \* per address: how its check ends while __init__ runs
    probes,         \* what _validate_proxies did, one entry per candidate examined
    valid_list,     \* the list _validate_proxies returned
    proxy_pool,     \* self.proxy_pool
    now,            \* time.time() (ticks)
    use_proxy,      \* pg installed by scholarly.use_proxy(), 0 before the first
    active,         \* the workers that call get_citation_count
    calls,          \* number of get_citation_count calls started
    pc,             \* per worker: position in get_citation_count
    paper_title,    \* per worker: argument
    max_retry,      \* per worker: argument
    attempt,        \* per worker: loop variable of get_citation_count
    pick_try,       \* per worker: iterations done in _pick_proxy_generator
    item,           \* per worker: the record picked, NoneItem for None
    failed_url,     \* per worker: whether the local failed_url is bound
    result,         \* per worker: value returned, meaningful at pc = "done"
    h_pool0,        \* per worker: proxy_pool when the call started
    h_attempt_pool, \* per worker: proxy_pool when the current attempt started
    h_outcome,      \* per worker: outcome of the attempt just handled
    h_refused,      \* per worker: pgs whose query raised the refusal text
    h_failed,       \* per worker: pgs whose query raised another exception
    h_queries,      \* per worker: remote queries issued in the call
    h_picks,        \* per worker: choices made by _pick_proxy_generator
    h_sleeps,       \* per worker: time.sleep calls in the call
    h_overlap,      \* per worker: another worker was inside a call during this one
    h_last_query,   \* per pg: time of the last remote query through it, -1 if none
    \* test_valid_scolarly_proxy_url.py
    f_pc,           \* position in filter_proxies_and_save: "idle" while it is not run
    input_csv,      \* the lines of the input file
    stage_result,   \* per address: how its stages end while the filter runs
    proxies_list,   \* the list loaded from the input file, then shuffled
    f_next,         \* index in proxies_list of the next candidate
    valid_proxies,  \* the addresses that passed so far
    f_stages,       \* per candidate examined: the stages that were run on it
    output_csv_file, \* the output file: whether it exists, and its lines
    \* listup_refercont_of_papers.py
    r_pc,           \* position in output_csv: "idle" while it is not run
    eval_results,   \* the result rows of the evaluation table
    csv_file,       \* the report file: whether it exists, and its rows
    processed_data, \* methodology -> citations text read from the earlier report
    r_next,         \* index in eval_results of the next row
    best_metric,    \* the local best_metric, "" for None
    runs,           \* runs of output_csv started on the report file
    r_log           \* per row handled in this run: what was read, asked and written

inputs == <<all_proxy_urls, max_proxies, min_interval, max_interval, probe_result>>
built  == <<probes, valid_list>>
locals == <<paper_title, max_retry, attempt, pick_try, item, failed_url, result>>
percall == <<h_pool0, h_attempt_pool, h_outcome, h_refused, h_failed, h_queries, h_picks, h_sleeps,
            h_overlap>>
perpg  == <<h_last_query>>
online == <<session, inputs, built, proxy_pool, now, use_proxy, active, calls, pc,
            locals, percall, perpg>>
filter == <<f_pc, input_csv, stage_result, proxies_list, f_next, valid_proxies,
            f_stages, output_csv_file>>
report == <<r_pc, eval_results, csv_file, processed_data, r_next, best_metric,
            runs, r_log>>
offline == <<filter, report>>
vars == <<online, offline>>

\* the offline filter is not run
FilterIdle ==
    /\ f_pc = "idle"
    /\ input_csv = <<>>
    /\ stage_result = <<>>
    /\ proxies_list = <<>>
    /\ f_next = 0
    /\ valid_proxies = <<>>
    /\ f_stages = <<>>
    /\ output_csv_file = [exists |-> FALSE, lines |-> <<>>]

\* the report script is not run
ReportIdle ==
    /\ r_pc = "idle"
    /\ eval_results = <<>>
    /\ csv_file = [exists |-> FALSE, rows |-> <<>>]
    /\ processed_data = <<>>
    /\ r_next = 0
    /\ best_metric = ""
    /\ runs = 0
    /\ r_log = <<>>

(* --------------------------- _validate_proxies -------------------------- *)

\* every answer of the probe taken as a success
AcceptedAnyStatus(o) == o.single_proxy /\ ~ o.raised

\* lines 111-124: the candidate is accepted when SingleProxy() succeeds and the
\* probe returns status 200 without raising
Accepted(o) == o.single_proxy /\ ~ o.raised /\ o.status_code = StatusOk

\* lines 109-136: what examining one candidate, whose check ends in o, can do
\* to valid_list
CheckCandidate(p_url, o, acc, lo, hi) ==
    IF Accepted(o)
    THEN { [valid_list |-> Append(acc.valid_list,
                                  [proxy_url |-> p_url, pg |-> Len(acc.valid_list) + 1,
                                   interval |-> iv, last_access |-> 0]),
            probes |-> Append(acc.probes,
                              [proxy_url |-> p_url, outcome |-> o,
                               pg |-> Len(acc.valid_list) + 1])] :
              iv \in Uniform(lo, hi) }
    ELSE { [valid_list |-> acc.valid_list,
            probes |-> Append(acc.probes, [proxy_url |-> p_url, outcome |-> o, pg |-> 0])] }

\* the loop guard written with > instead of >=
LoopStopsLate(n, target) == n > target

\* lines 106-107: the loop stops once max_proxies records are collected
LoopStops(n, target) == n >= target

\* lines 104-141: the loop over the shuffled list, from candidate i on
RECURSIVE ValidateFrom(_, _, _, _, _, _, _)
ValidateFrom(urls, net, i, acc, target, lo, hi) ==
    IF i > Len(urls) \/ LoopStops(Len(acc.valid_list), target)
    THEN {acc}
    ELSE UNION { ValidateFrom(urls, net, i + 1, nxt, target, lo, hi) :
                   nxt \in CheckCandidate(urls[i], net[urls[i]], acc, lo, hi) }

\* every run of _validate_proxies on the list as shuffled
ValidateProxies(urls, net, target, lo, hi) ==
    ValidateFrom(urls, net, 1, [valid_list |-> <<>>, probes |-> <<>>], target, lo, hi)

(* ------------------------------ __init__ -------------------------------- *)

\* the state of the class before __init__ has run, with its arguments
OnlineWith(lists, targets, ranges, nets, clocks) ==
    /\ session = "new"
    /\ all_proxy_urls \in lists
    /\ max_proxies \in targets
    /\ \E r \in ranges : min_interval = r[1] /\ max_interval = r[2]
    /\ probe_result \in nets
    /\ probes = <<>>
    /\ valid_list = <<>>
    /\ proxy_pool = <<>>
    /\ now \in clocks
    /\ use_proxy = 0
    /\ active = {1}
    /\ calls = 0
    /\ pc = [w \in Workers |-> "idle"]
    /\ paper_title = [w \in Workers |-> ""]
    /\ max_retry = [w \in Workers |-> 0]
    /\ attempt = [w \in Workers |-> 0]
    /\ pick_try = [w \in Workers |-> 0]
    /\ item = [w \in Workers |-> NoneItem]
    /\ failed_url = [w \in Workers |-> FALSE]
    /\ result = [w \in Workers |-> 0]
    /\ h_pool0 = [w \in Workers |-> <<>>]
    /\ h_attempt_pool = [w \in Workers |-> <<>>]
    /\ h_outcome = [w \in Workers |-> NoOutcome]
    /\ h_refused = [w \in Workers |-> {}]
    /\ h_failed = [w \in Workers |-> {}]
    /\ h_queries = [w \in Workers |-> 0]
    /\ h_picks = [w \in Workers |-> 0]
    /\ h_sleeps = [w \in Workers |-> 0]
    /\ h_overlap = [w \in Workers |-> FALSE]
    /\ h_last_query = [g \in PgIds |-> -1]

\* the class is not used
OnlineIdle ==
    OnlineWith({ <<>> }, { 0 }, { <<1, 1>> },
               { [a \in Addresses |-> [single_proxy |-> FALSE, raised |-> FALSE,
                                       status_code |-> 0]] }, { 0 })

InitWith(lists, targets, ranges, nets, clocks) ==
    /\ OnlineWith(lists, targets, ranges, nets, clocks)
    /\ FilterIdle
    /\ ReportIdle

\* lines 64-72 with 98-141: shuffle the caller's list in place, validate, keep
\* the result as the pool
Construct ==
    /\ session = "new"
    /\ \E order \in Shuffles(all_proxy_urls) :
         \E run \in ValidateProxies(order, probe_result, max_proxies,
                                     min_interval, max_interval) :
            /\ all_proxy_urls' = order
            /\ probes' = run.probes
            /\ valid_list' = run.valid_list
            /\ proxy_pool' = run.valid_list
    /\ session' = "ready"
    /\ UNCHANGED <<max_proxies, min_interval, max_interval, probe_result, now,
                   use_proxy, active, calls, pc, locals, percall, perpg>>
    /\ UNCHANGED offline

(* ----------------------------- pool methods ---------------------------- *)

\* the cooldown compared with > instead of >=
GetAvailablePoolStrict(pool, t) ==
    SelectSeq(pool, LAMBDA it : (t - it.last_access) > it.interval)

\* lines 148-152: the records whose cooldown has passed at time t
GetAvailablePool(pool, t) ==
    SelectSeq(pool, LAMBDA it : (t - it.last_access) >= it.interval)

\* the shortest remaining cooldown, not raised to the floor
MinWaitNoFloor(pool, t) ==
    MinOf({ it.interval - (t - it.last_access) : it \in Range(pool) })

\* lines 163-167: max(min(wait_times), 0.1)
MinWait(pool, t) ==
    MaxOf({ MinOf({ it.interval - (t - it.last_access) : it \in Range(pool) }),
            WaitFloor })

\* removal that matches on the address instead of the record
RemoveByUrl(pool, it) ==
    IF \E i \in 1 .. Len(pool) : pool[i].proxy_url = it.proxy_url
    THEN LET k == MinOf({ i \in 1 .. Len(pool) : pool[i].proxy_url = it.proxy_url })
         IN  [i \in 1 .. (Len(pool) - 1) |-> IF i < k THEN pool[i] ELSE pool[i + 1]]
    ELSE pool

\* lines 175-179: list.remove(item) drops the first record equal to item, which
\* is the record holding the same ProxyGenerator object; ValueError is swallowed
RemoveProxy(pool, it) ==
    IF \E i \in 1 .. Len(pool) : pool[i].pg = it.pg
    THEN LET k == MinOf({ i \in 1 .. Len(pool) : pool[i].pg = it.pg })
         IN  [i \in 1 .. (Len(pool) - 1) |-> IF i < k THEN pool[i] ELSE pool[i + 1]]
    ELSE pool

\* the mark written to every record that has the address of the one used
MarkByUrl(pool, it, t) ==
    [i \in 1 .. Len(pool) |->
        IF pool[i].proxy_url = it.proxy_url
        THEN [pool[i] EXCEPT !.last_access = t] ELSE pool[i]]

\* line 207: item["last_access"] = time.time(), item being the pool's own record
MarkAccessTime(pool, it, t) ==
    [i \in 1 .. Len(pool) |->
        IF pool[i].pg = it.pg THEN [pool[i] EXCEPT !.last_access = t] ELSE pool[i]]

(* -------------------------- get_citation_count -------------------------- *)

Idle(w) == pc[w] = "idle"

\* the worker is between the entry of get_citation_count and its return or
\* the exception that leaves it
InCall(w) == pc[w] \notin {"idle", "raised"}

\* line 209: a worker enters get_citation_count
Call(w) ==
    /\ session = "ready"
    /\ w \in active
    /\ Idle(w)
    /\ calls < MaxCalls
    /\ calls' = calls + 1
    /\ \E t \in Titles, m \in 0 .. MaxRetryArg :
         /\ paper_title' = [paper_title EXCEPT ![w] = t]
         /\ max_retry' = [max_retry EXCEPT ![w] = m]
    /\ attempt' = [attempt EXCEPT ![w] = 1]
    /\ pc' = [pc EXCEPT ![w] = "for"]
    /\ h_pool0' = [h_pool0 EXCEPT ![w] = proxy_pool]
    /\ h_overlap' = [v \in Workers |->
                        IF \E u \in Workers \ {w} : InCall(u)
                        THEN (v = w \/ InCall(v) \/ h_overlap[v])
                        ELSE h_overlap[v]]
    /\ UNCHANGED <<session, inputs, built, proxy_pool, now, use_proxy, active,
                   pick_try, item, failed_url, result,
                   h_attempt_pool, h_outcome, h_refused, h_failed, h_queries, h_picks, h_sleeps, perpg>>
    /\ UNCHANGED offline

\* the loop head without its check of the pool
LoopHeadNoEmptyCheck(att, maxr, pool) ==
    IF att > maxr THEN "exhausted" ELSE "pick"

\* lines 214-217 and 255-256: what the head of the attempt loop decides
LoopHead(att, maxr, pool) ==
    IF att > maxr THEN "exhausted"
    ELSE IF Len(pool) = 0 THEN "empty"
    ELSE "pick"

\* lines 214-219 and 255-256
ForHead(w) ==
    /\ pc[w] = "for"
    /\ LET d == LoopHead(attempt[w], max_retry[w], proxy_pool) IN
         \/ /\ d = "exhausted"
            /\ result' = [result EXCEPT ![w] = AttemptsExhausted]
            /\ pc' = [pc EXCEPT ![w] = "done"]
            /\ UNCHANGED pick_try
         \/ /\ d = "empty"
            /\ result' = [result EXCEPT ![w] = PoolEmpty]
            /\ pc' = [pc EXCEPT ![w] = "done"]
            /\ UNCHANGED pick_try
         \/ /\ d = "pick"
            /\ pick_try' = [pick_try EXCEPT ![w] = 0]
            /\ pc' = [pc EXCEPT ![w] = "pick"]
            /\ UNCHANGED result
    /\ h_outcome' = [h_outcome EXCEPT ![w] = IF pc'[w] = "pick" THEN NoOutcome ELSE @]
    /\ h_attempt_pool' = [h_attempt_pool EXCEPT ![w] =
                             IF pc'[w] = "pick" THEN proxy_pool ELSE @]
    /\ UNCHANGED <<session, inputs, built, proxy_pool, now, use_proxy, active, calls,
                   paper_title, max_retry, attempt, item, failed_url,
                   h_pool0, h_refused, h_failed, h_queries, h_picks, h_sleeps,
                   h_overlap, perpg>>
    /\ UNCHANGED offline

\* the choice made among the records validated at construction
ChoicesOfValidated(pool, t) == Range(GetAvailablePool(valid_list, t))

\* the choice made among all records of the pool, cooling down or not
ChoicesOfPool(pool, t) == Range(pool)

\* lines 191 and 196: random.choice(available) can return any record of
\* _get_available_pool()
Choices(pool, t) == Range(GetAvailablePool(pool, t))

\* the proxy installed in scholarly left as it was
UseProxyKept(cur, pg) == cur

\* line 198: scholarly.use_proxy(choice_item["pg"]) replaces the one proxy
\* setting of the scholarly singleton
UseProxy(cur, pg) == pg

\* lines 186-201 with 220-222: one iteration of _pick_proxy_generator up to
\* its return or its call of _wait_for_any_proxy
Pick(w) ==
    /\ pc[w] = "pick"
    /\ \/ /\ \/ pick_try[w] >= MaxPickRetry
             \/ Len(proxy_pool) = 0
          /\ item' = [item EXCEPT ![w] = NoneItem]
          /\ result' = [result EXCEPT ![w] = NoProxyAvailable]
          /\ pc' = [pc EXCEPT ![w] = "done"]
          /\ UNCHANGED <<use_proxy, h_picks>>
       \/ /\ pick_try[w] < MaxPickRetry
          /\ Len(proxy_pool) > 0
          /\ Len(GetAvailablePool(proxy_pool, now)) = 0
          /\ pc' = [pc EXCEPT ![w] = "wait"]
          /\ UNCHANGED <<use_proxy, item, result, h_picks>>
       \/ /\ pick_try[w] < MaxPickRetry
          /\ \E choice_item \in Choices(proxy_pool, now) :
               /\ use_proxy' = UseProxy(use_proxy, choice_item.pg)
               /\ item' = [item EXCEPT ![w] = choice_item]
          /\ h_picks' = [h_picks EXCEPT ![w] = @ + 1]
          /\ pc' = [pc EXCEPT ![w] = "try"]
          /\ UNCHANGED result
    /\ UNCHANGED <<session, inputs, built, proxy_pool, now, active, calls,
                   paper_title, max_retry, attempt, pick_try, failed_url,
                   h_pool0, h_attempt_pool, h_outcome, h_refused, h_failed, h_queries,
                   h_sleeps, h_overlap, perpg>>
    /\ UNCHANGED offline

\* lines 159-169 with 193-194: _wait_for_any_proxy, then the next iteration
Wait(w) ==
    /\ pc[w] = "wait"
    /\ \/ /\ Len(proxy_pool) = 0
          /\ UNCHANGED <<now, h_sleeps>>
       \/ /\ Len(proxy_pool) > 0
          /\ \E over \in 0 .. MaxOversleep :
               now' = now + MinWait(proxy_pool, now) + over
          /\ h_sleeps' = [h_sleeps EXCEPT ![w] = @ + 1]
    /\ pick_try' = [pick_try EXCEPT ![w] = @ + 1]
    /\ pc' = [pc EXCEPT ![w] = "pick"]
    /\ UNCHANGED <<session, inputs, built, proxy_pool, use_proxy, active, calls,
                   paper_title, max_retry, attempt, item, failed_url, result,
                   h_pool0, h_attempt_pool, h_outcome, h_refused, h_failed, h_queries,
                   h_picks, h_overlap, perpg>>
    /\ UNCHANGED offline

\* lines 226-227: failed_url is assigned once search_pubs() has returned
FailedUrlBound(bound, o) ==
    bound \/ ~ (o.kind = "raise" /\ o.step = "search_pubs")

\* lines 241-253: the handler formats failed_url before it removes the proxy, so
\* it completes only when failed_url is bound
HandlerCompletes(bound) == bound

\* lines 248 and 253: what the completed handler does to the pool
AfterException(pool, it) == RemoveProxy(pool, it)

\* "no publication" treated like a failure of the proxy
AfterNoResultEvicts(pool, it) == RemoveProxy(pool, it)

\* lines 230-232: what "no publication" does to the pool
AfterNoResult(pool, it) == pool

\* lines 234-239: what a filled publication does to the pool
AfterSuccess(pool, it, t) == MarkAccessTime(pool, it, t)

\* a missing num_citations reported as -1
CitesAbsentIsMinusOne(o) == IF o.has_citations THEN o.num_citations ELSE -1

\* line 235: filled_pub.get("num_citations", 0)
Cites(o) == IF o.has_citations THEN o.num_citations ELSE 0

\* lines 224-253: the remote query through the installed proxy and what follows
Try(w) ==
    /\ pc[w] = "try"
    /\ \E o \in RemoteOutcomes :
         LET bound == FailedUrlBound(failed_url[w], o) IN
         /\ now' = now + QueryTicks
         /\ h_outcome' = [h_outcome EXCEPT ![w] = Seen(o)]
         /\ h_queries' = [h_queries EXCEPT ![w] = @ + 1]
         /\ h_last_query' = [h_last_query EXCEPT ![use_proxy] = now]
         /\ failed_url' = [failed_url EXCEPT ![w] = bound]
         /\ h_refused' = [h_refused EXCEPT ![w] =
                            IF o.kind = "raise" /\ o.refused
                            THEN @ \cup {item[w].pg} ELSE @]
         /\ h_failed' = [h_failed EXCEPT ![w] =
                            IF o.kind = "raise" /\ ~ o.refused
                            THEN @ \cup {item[w].pg} ELSE @]
         /\ \/ /\ o.kind = "empty"
               /\ proxy_pool' = AfterNoResult(proxy_pool, item[w])
               /\ result' = [result EXCEPT ![w] = NoResultFound]
               /\ pc' = [pc EXCEPT ![w] = "done"]
               /\ UNCHANGED attempt
            \/ /\ o.kind = "pub"
               /\ proxy_pool' = AfterSuccess(proxy_pool, item[w], now + QueryTicks)
               /\ result' = [result EXCEPT ![w] = Cites(o)]
               /\ pc' = [pc EXCEPT ![w] = "done"]
               /\ UNCHANGED attempt
            \/ /\ o.kind = "raise"
               /\ HandlerCompletes(bound)
               /\ proxy_pool' = AfterException(proxy_pool, item[w])
               /\ attempt' = [attempt EXCEPT ![w] = @ + 1]
               /\ pc' = [pc EXCEPT ![w] = "for"]
               /\ UNCHANGED result
            \/ /\ o.kind = "raise"
               /\ ~ HandlerCompletes(bound)
               /\ pc' = [pc EXCEPT ![w] = "raised"]
               /\ UNCHANGED <<proxy_pool, attempt, result>>
    /\ UNCHANGED <<session, inputs, built, use_proxy, active, calls,
                   paper_title, max_retry, pick_try, item,
                   h_pool0, h_attempt_pool, h_picks, h_sleeps, h_overlap>>
    /\ UNCHANGED offline

\* the caller takes the returned value; the frame of the call is gone
Return(w) ==
    /\ pc[w] = "done"
    /\ pc' = [pc EXCEPT ![w] = "idle"]
    /\ paper_title' = [paper_title EXCEPT ![w] = ""]
    /\ max_retry' = [max_retry EXCEPT ![w] = 0]
    /\ attempt' = [attempt EXCEPT ![w] = 0]
    /\ pick_try' = [pick_try EXCEPT ![w] = 0]
    /\ item' = [item EXCEPT ![w] = NoneItem]
    /\ failed_url' = [failed_url EXCEPT ![w] = FALSE]
    /\ result' = [result EXCEPT ![w] = 0]
    /\ h_pool0' = [h_pool0 EXCEPT ![w] = <<>>]
    /\ h_attempt_pool' = [h_attempt_pool EXCEPT ![w] = <<>>]
    /\ h_outcome' = [h_outcome EXCEPT ![w] = NoOutcome]
    /\ h_refused' = [h_refused EXCEPT ![w] = {}]
    /\ h_failed' = [h_failed EXCEPT ![w] = {}]
    /\ h_queries' = [h_queries EXCEPT ![w] = 0]
    /\ h_picks' = [h_picks EXCEPT ![w] = 0]
    /\ h_sleeps' = [h_sleeps EXCEPT ![w] = 0]
    /\ h_overlap' = [h_overlap EXCEPT ![w] = FALSE]
    /\ UNCHANGED <<session, inputs, built, proxy_pool, now, use_proxy, active, calls,
                   perpg>>
    /\ UNCHANGED offline

\* some record of the pool is still cooling down at time t
Cooling(pool, t) == Len(GetAvailablePool(pool, t)) < Len(pool)

\* the clock advances between two calls; it is followed only while a cooldown
\* is running, since after that every later reading gives the same choices
Tick ==
    /\ session = "ready"
    /\ \A w \in Workers : Idle(w)
    /\ calls < MaxCalls
    /\ Cooling(proxy_pool, now)
    /\ now' = now + 1
    /\ UNCHANGED <<session, inputs, built, proxy_pool, use_proxy, active, calls, pc,
                   locals, percall, perpg>>
    /\ UNCHANGED offline

\* constructor arguments of the sessions followed through their queries
SessionLists == { <<>> } \cup { [i \in 1 .. n |-> IF i = MaxCandidates THEN "10.0.0.1:80"
                                   ELSE IF i = 1 THEN "10.0.0.1:80" ELSE "10.0.0.2:80"] :
                                  n \in 1 .. MaxCandidates }
SessionRanges == { <<2, 3>> }
\* a clock reading later than every interval, and one just after the epoch
LateClock == MaxIntervalArg
StartClocks == { 0, LateClock }

\* constructor arguments for _validate_proxies on its own
AllLists == SeqsUpTo(Addresses, MaxCandidates)
AllTargets == 0 .. MaxTarget
AllRanges == { <<lo, hi>> \in (1 .. MaxIntervalArg) \X (1 .. MaxIntervalArg) : lo <= hi }

AllNets == [Addresses -> ProbeOutcomes]
SessionNets == { net \in AllNets : \A a \in Addresses : Accepted(net[a]) }

Init == InitWith(SessionLists, {MaxTarget}, SessionRanges, SessionNets, {LateClock})

InitValidate == InitWith(AllLists, AllTargets, AllRanges, AllNets, StartClocks)

\* sessions whose candidates' probes end in every way, followed through their
\* queries
InitAdmit == InitWith(SessionLists, {MaxTarget}, SessionRanges, AllNets, {LateClock})

\* the pools a session built as vl can hold at clock reading t: any records
\* of vl still in it, in their order, each never marked or marked at a reading
\* up to t
SubPools(vl, t) ==
    UNION { { [i \in 1 .. Len(sub) |-> [sub[i] EXCEPT !.last_access = la[i]]] :
                la \in [1 .. Len(sub) -> 0 .. t] } :
            sub \in { SelectSeq(vl, LAMBDA r : r.pg \in keep) :
                        keep \in SUBSET { vl[i].pg : i \in 1 .. Len(vl) } } }

\* _pick_proxy_generator entered by a call's first attempt, on a session of two
\* validated records in any state its earlier calls can have left
InitPick ==
    /\ session = "ready"
    /\ all_proxy_urls = <<"10.0.0.1:80", "10.0.0.2:80">>
    /\ max_proxies = MaxTarget
    /\ \E r \in SessionRanges : min_interval = r[1] /\ max_interval = r[2]
    /\ probe_result \in SessionNets
    /\ now = LateClock
    /\ \E run \in ValidateProxies(all_proxy_urls, probe_result, max_proxies,
                                    min_interval, max_interval) :
          /\ probes = run.probes
          /\ valid_list = run.valid_list
          /\ proxy_pool \in SubPools(run.valid_list, now)
    /\ use_proxy = 0
    /\ active = {1}
    /\ calls = 1
    /\ pc = [w \in Workers |-> IF w \in active THEN "pick" ELSE "idle"]
    /\ paper_title \in [Workers -> Titles \cup {""}]
    /\ \A w \in Workers : paper_title[w] = "" <=> w \notin active
    /\ max_retry = [w \in Workers |-> IF w \in active THEN 1 ELSE 0]
    /\ attempt = [w \in Workers |-> IF w \in active THEN 1 ELSE 0]
    /\ pick_try = [w \in Workers |-> 0]
    /\ item = [w \in Workers |-> NoneItem]
    /\ failed_url = [w \in Workers |-> FALSE]
    /\ result = [w \in Workers |-> 0]
    /\ h_pool0 = [w \in Workers |-> IF w \in active THEN proxy_pool ELSE <<>>]
    /\ h_attempt_pool = [w \in Workers |-> IF w \in active THEN proxy_pool ELSE <<>>]
    /\ h_outcome = [w \in Workers |-> NoOutcome]
    /\ h_refused = [w \in Workers |-> {}]
    /\ h_failed = [w \in Workers |-> {}]
    /\ h_queries = [w \in Workers |-> 0]
    /\ h_picks = [w \in Workers |-> 0]
    /\ h_sleeps = [w \in Workers |-> 0]
    /\ h_overlap = [w \in Workers |-> FALSE]
    /\ h_last_query = [g \in PgIds |-> -1]
    /\ FilterIdle
    /\ ReportIdle

\* time.time() reads the wall clock, which can be set back: here while a worker
\* sleeps in _wait_for_any_proxy, to a reading not before the latest mark
ClockSetBack ==
    /\ \E w \in Workers : pc[w] = "pick" /\ pick_try[w] \in 1 .. (MaxPickRetry - 1)
    /\ Len(proxy_pool) > 0
    /\ \E t \in MaxOf({ proxy_pool[i].last_access : i \in 1 .. Len(proxy_pool) }) .. (now - 1) :
         now' = t
    /\ UNCHANGED <<session, inputs, built, proxy_pool, use_proxy, active, calls, pc,
                   locals, percall, perpg>>
    /\ UNCHANGED offline

NextPick ==
    \/ ClockSetBack
    \/ \E w \in Workers : Pick(w)
    \/ \E w \in Workers : Wait(w)

(* ------------------ test_valid_scolarly_proxy_url.py -------------------- *)

\* lines of the input file: a plain address, an address that contains the
\* pattern "httpbin.org" of SUSPICIOUS_PATTERNS, an address with credentials
\* whose password contains a comma, and an empty line
PlainAddress == "10.0.0.1:80"
SuspiciousAddress == "httpbin.org:80"
CommaAddress == "user:p,w@10.0.0.3:80"
FilterAddresses == { PlainAddress, SuspiciousAddress, CommaAddress }
InputLines == FilterAddresses \cup { "" }

\* how the stages of one candidate can end: the HTTPS probe raising or
\* answering a status, SingleProxy() returning False, the test search raising
\* the refusal text or another exception, or everything passing
StageOutcomes ==
    { [raised |-> TRUE,  status_code |-> 0,        single_proxy |-> FALSE, search |-> "none"],
      [raised |-> FALSE, status_code |-> 503,      single_proxy |-> FALSE, search |-> "none"],
      [raised |-> FALSE, status_code |-> StatusOk, single_proxy |-> FALSE, search |-> "none"],
      [raised |-> FALSE, status_code |-> StatusOk, single_proxy |-> TRUE,  search |-> "refused"],
      [raised |-> FALSE, status_code |-> StatusOk, single_proxy |-> TRUE,  search |-> "error"],
      [raised |-> FALSE, status_code |-> StatusOk, single_proxy |-> TRUE,  search |-> "ok"] }

\* lines 23-33: load_proxies_from_csv keeps the lines that are not empty
LoadProxiesFromCsv(lines) == SelectSeq(lines, LAMBDA l : l # "")

\* lines 36-43: is_blacklisted, on the addresses above
IsBlacklisted(proxy_url) == proxy_url = SuspiciousAddress

\* lines 56-103: the stages is_scholarly_proxy_valid runs on a candidate whose
\* stages end as o: it returns at the first one that fails
StagesRun(proxy_url, o) ==
    IF IsBlacklisted(proxy_url) THEN <<"blacklist">>
    ELSE IF o.raised \/ o.status_code # StatusOk THEN <<"blacklist", "probe">>
    ELSE IF ~ o.single_proxy THEN <<"blacklist", "probe", "setup">>
    ELSE <<"blacklist", "probe", "setup", "search">>

\* lines 56-103: the value is_scholarly_proxy_valid returns
IsScholarlyProxyValid(proxy_url, o) ==
    /\ ~ IsBlacklisted(proxy_url)
    /\ ~ o.raised
    /\ o.status_code = StatusOk
    /\ o.single_proxy
    /\ o.search = "ok"

\* csv.writer quotes a field that contains the delimiter: of the addresses
\* above, the one with a comma
CsvNeedsQuotes(field) == field = CommaAddress

\* line 140: the line writer.writerow([vp]) writes, without its terminator
CsvRow(vp) == IF CsvNeedsQuotes(vp) THEN "\"" \o vp \o "\"" ELSE vp

\* lines 136-143: the output file after the loop
SaveProxies(file, valid) ==
    IF Len(valid) > 0
    THEN [exists |-> TRUE, lines |-> [i \in 1 .. Len(valid) |-> CsvRow(valid[i])]]
    ELSE file

\* input files of up to MaxCandidates lines; the output file absent or left
\* by an earlier run
InitFilter ==
    /\ OnlineIdle
    /\ ReportIdle
    /\ f_pc = "start"
    /\ input_csv \in SeqsUpTo(InputLines, MaxCandidates)
    /\ stage_result \in [FilterAddresses -> StageOutcomes]
    /\ proxies_list = <<>>
    /\ f_next = 0
    /\ valid_proxies = <<>>
    /\ f_stages = <<>>
    /\ output_csv_file \in { [exists |-> FALSE, lines |-> <<>>],
                              [exists |-> TRUE, lines |-> <<PlainAddress>>] }

\* lines 121-128: load the input file and shuffle the list
FilterLoad ==
    /\ f_pc = "start"
    /\ proxies_list' \in Shuffles(LoadProxiesFromCsv(input_csv))
    /\ f_next' = 1
    /\ f_pc' = "check"
    /\ UNCHANGED <<online, input_csv, stage_result, valid_proxies, f_stages,
                   output_csv_file>>
    /\ UNCHANGED report

\* lines 129-131: one iteration of the loop over proxies_list
FilterCheck ==
    /\ f_pc = "check"
    /\ f_next <= Len(proxies_list)
    /\ LET p_url == proxies_list[f_next]
           o == stage_result[p_url]
       IN  /\ f_stages' = Append(f_stages, [proxy_url |-> p_url,
                                            stages |-> StagesRun(p_url, o)])
           /\ valid_proxies' = IF IsScholarlyProxyValid(p_url, o)
                               THEN Append(valid_proxies, p_url) ELSE valid_proxies
    /\ f_next' = f_next + 1
    /\ UNCHANGED <<online, f_pc, input_csv, stage_result, proxies_list, output_csv_file>>
    /\ UNCHANGED report

\* lines 133-143: write the output file, or leave it, once the loop is over
FilterSave ==
    /\ f_pc = "check"
    /\ f_next > Len(proxies_list)
    /\ output_csv_file' = SaveProxies(output_csv_file, valid_proxies)
    /\ f_pc' = "done"
    /\ UNCHANGED <<online, input_csv, stage_result, proxies_list, f_next, valid_proxies,
                   f_stages>>
    /\ UNCHANGED report

NextFilter == FilterLoad \/ FilterCheck \/ FilterSave

(* -------------------- listup_refercont_of_papers.py -------------------- *)

\* line 187: the text written when the citation query raised
ErrorText == "エラー"
\* line 184: the text written when the search yields no publication,
\* '引用情報が見つかりません' in the source, romanised here
NotFoundText == "in'you jouhou ga mitsukarimasen"
\* line 182: the text written when the publication has no num_citations,
\* '引用数情報なし' in the source, romanised here
NoCountText == "in'yousuu jouhou nashi"

Methodologies == { "PointNet", "KPConv" }
MetricNames == { "mIoU" }

\* a Python value: None, a str or an int
NoneValue == [t |-> "none", s |-> "", n |-> 0]
StrValue(x) == [t |-> "str", s |-> x, n |-> 0]
IntValue(k) == [t |-> "int", s |-> "", n |-> k]

\* line 210: the text csv.DictWriter writes for a value: "" for None, the
\* decimal digits of an int, the text of a str
CsvField(v) ==
    IF v.t = "none" THEN "" ELSE IF v.t = "int" THEN ToString(v.n) ELSE v.s

\* the result rows: a methodology, its best_metric ("" for None) and the
\* metrics it reports, its own best_metric among them
ResultRows ==
    { r \in [methodology : Methodologies, best_metric : MetricNames \cup { "" },
             metrics : SUBSET MetricNames] :
        r.best_metric # "" => r.best_metric \in r.metrics }

\* what the citation search of one row can do: raise, yield no publication,
\* yield a publication with or without num_citations
ScholarOutcomes == { "raise", "empty", "pub_with_count", "pub_without_count" }

\* lines 177-187: the value of citations after the query
AfterQuery(o) ==
    CASE o = "raise" -> StrValue(ErrorText)
      [] o = "empty" -> StrValue(NotFoundText)
      [] o = "pub_with_count" -> IntValue(12)
      [] o = "pub_without_count" -> StrValue(NoCountText)

\* lines 121-125: processed_data[lst[0]] = lst for every row of the earlier
\* report, a later row replacing an earlier one of the same methodology; of
\* lst only lst[2], the citations text, is kept here
ReadProcessed(file) ==
    IF ~ file.exists THEN <<>>
    ELSE [m \in { file.rows[i].methodology : i \in 1 .. Len(file.rows) } |->
            LET last == MaxOf({ i \in 1 .. Len(file.rows) : file.rows[i].methodology = m })
            IN  file.rows[last].citations]

\* lines 144-148: citations = row[2] when the methodology was in the earlier
\* report, None otherwise
PriorCitations(data, methodology) ==
    IF methodology \in DOMAIN data THEN StrValue(data[methodology]) ELSE NoneValue

\* line 176: citations is None or citations == 'エラー'
Requery(citations) ==
    citations.t = "none" \/ (citations.t = "str" /\ citations.s = ErrorText)

\* lines 193-196: best_metric is replaced by the row's own when it has one, and
\* result.metrics[best_metric] raises KeyError when the row lacks that metric
MetricOf(row, carried) ==
    IF row.best_metric # "" THEN row.best_metric ELSE carried
AccuracyRaises(row, carried) ==
    MetricOf(row, carried) # "" /\ MetricOf(row, carried) \notin row.metrics

\* earlier reports: none, or one row for some methodologies
PriorFiles ==
    { [exists |-> FALSE, rows |-> <<>>] } \cup
    { [exists |-> TRUE, rows |-> rows] :
        rows \in { r \in SeqsUpTo([methodology : Methodologies,
                                    citations : { ErrorText, NotFoundText, "12" }], 2) :
                     \A i, j \in 1 .. Len(r) : r[i].methodology = r[j].methodology => i = j } }

\* evaluation tables of one or two rows of different methodologies
InitReport ==
    /\ OnlineIdle
    /\ FilterIdle
    /\ r_pc = "start"
    /\ eval_results \in { r \in SeqsUpTo(ResultRows, 2) :
                             /\ Len(r) >= 1
                             /\ \A i, j \in 1 .. Len(r) :
                                   r[i].methodology = r[j].methodology => i = j }
    /\ csv_file \in PriorFiles
    /\ processed_data = <<>>
    /\ r_next = 0
    /\ best_metric = ""
    /\ runs = 1
    /\ r_log = <<>>

\* lines 117-135: read the earlier report, then open the file for writing,
\* which empties it, and write the header
ReportOpen ==
    /\ r_pc = "start"
    /\ processed_data' = ReadProcessed(csv_file)
    /\ csv_file' = [exists |-> TRUE, rows |-> <<>>]
    /\ best_metric' = ""
    /\ r_next' = 1
    /\ r_pc' = "rows"
    /\ UNCHANGED <<online, filter, eval_results, runs, r_log>>

\* lines 137-215: one result row
ReportRow ==
    /\ r_pc = "rows"
    /\ r_next <= Len(eval_results)
    /\ LET row == eval_results[r_next]
           prior == PriorCitations(processed_data, row.methodology)
       IN  \E o \in ScholarOutcomes :
             LET citations == IF Requery(prior) THEN AfterQuery(o) ELSE prior
                 written == ~ AccuracyRaises(row, best_metric)
             IN  /\ best_metric' = MetricOf(row, best_metric)
                 /\ csv_file' = IF written
                                THEN [csv_file EXCEPT !.rows =
                                        Append(@, [methodology |-> row.methodology,
                                                   citations |-> CsvField(citations)])]
                                ELSE csv_file
                 /\ r_log' = Append(r_log,
                                    [methodology |-> row.methodology,
                                     had_prior |-> row.methodology \in DOMAIN processed_data,
                                     prior |-> CsvField(prior),
                                     queried |-> Requery(prior),
                                     written |-> written,
                                     citations |-> CsvField(citations)])
    /\ r_next' = r_next + 1
    /\ UNCHANGED <<online, filter, r_pc, eval_results, processed_data, runs>>

\* the loop is over and the file is closed
ReportClose ==
    /\ r_pc = "rows"
    /\ r_next > Len(eval_results)
    /\ r_pc' = "done"
    /\ UNCHANGED <<online, filter, eval_results, csv_file, processed_data, r_next,
                   best_metric, runs, r_log>>

\* the script is run again on the report it wrote
ReportAgain ==
    /\ r_pc = "done"
    /\ runs < MaxRuns
    /\ runs' = runs + 1
    /\ r_pc' = "start"
    /\ r_log' = <<>>
    /\ r_next' = 0
    /\ UNCHANGED <<online, filter, eval_results, csv_file, processed_data, best_metric>>

NextReport == ReportOpen \/ ReportRow \/ ReportClose \/ ReportAgain

\* a session of two validated records met between two calls, in any state its
\* earlier calls can have left, with one more call to come
InitLater ==
    /\ session = "ready"
    /\ all_proxy_urls = <<"10.0.0.1:80", "10.0.0.2:80">>
    /\ max_proxies = MaxTarget
    /\ \E r \in SessionRanges : min_interval = r[1] /\ max_interval = r[2]
    /\ probe_result \in SessionNets
    /\ now = LateClock
    /\ \E run \in ValidateProxies(all_proxy_urls, probe_result, max_proxies,
                                    min_interval, max_interval) :
          /\ probes = run.probes
          /\ valid_list = run.valid_list
          /\ proxy_pool \in SubPools(run.valid_list, now)
    /\ use_proxy = 0
    /\ active = {1}
    /\ calls = MaxCalls - 1
    /\ pc = [w \in Workers |-> "idle"]
    /\ paper_title = [w \in Workers |-> ""]
    /\ max_retry = [w \in Workers |-> 0]
    /\ attempt = [w \in Workers |-> 0]
    /\ pick_try = [w \in Workers |-> 0]
    /\ item = [w \in Workers |-> NoneItem]
    /\ failed_url = [w \in Workers |-> FALSE]
    /\ result = [w \in Workers |-> 0]
    /\ h_pool0 = [w \in Workers |-> <<>>]
    /\ h_attempt_pool = [w \in Workers |-> <<>>]
    /\ h_outcome = [w \in Workers |-> NoOutcome]
    /\ h_refused = [w \in Workers |-> {}]
    /\ h_failed = [w \in Workers |-> {}]
    /\ h_queries = [w \in Workers |-> 0]
    /\ h_picks = [w \in Workers |-> 0]
    /\ h_sleeps = [w \in Workers |-> 0]
    /\ h_overlap = [w \in Workers |-> FALSE]
    /\ h_last_query = [g \in PgIds |-> -1]
    /\ FilterIdle
    /\ ReportIdle

\* a session of two validated records, none used yet, that two workers share:
\* each may call get_citation_count while the other is inside a call
InitShared ==
    /\ session = "ready"
    /\ all_proxy_urls = <<"10.0.0.1:80", "10.0.0.2:80">>
    /\ max_proxies = MaxTarget
    /\ \E r \in SessionRanges : min_interval = r[1] /\ max_interval = r[2]
    /\ probe_result \in SessionNets
    /\ now = LateClock
    /\ \E run \in ValidateProxies(all_proxy_urls, probe_result, max_proxies,
                                    min_interval, max_interval) :
          /\ probes = run.probes
          /\ valid_list = run.valid_list
          /\ proxy_pool = run.valid_list
    /\ use_proxy = 0
    /\ active = Workers
    /\ calls = 0
    /\ pc = [w \in Workers |-> "idle"]
    /\ paper_title = [w \in Workers |-> ""]
    /\ max_retry = [w \in Workers |-> 0]
    /\ attempt = [w \in Workers |-> 0]
    /\ pick_try = [w \in Workers |-> 0]
    /\ item = [w \in Workers |-> NoneItem]
    /\ failed_url = [w \in Workers |-> FALSE]
    /\ result = [w \in Workers |-> 0]
    /\ h_pool0 = [w \in Workers |-> <<>>]
    /\ h_attempt_pool = [w \in Workers |-> <<>>]
    /\ h_outcome = [w \in Workers |-> NoOutcome]
    /\ h_refused = [w \in Workers |-> {}]
    /\ h_failed = [w \in Workers |-> {}]
    /\ h_queries = [w \in Workers |-> 0]
    /\ h_picks = [w \in Workers |-> 0]
    /\ h_sleeps = [w \in Workers |-> 0]
    /\ h_overlap = [w \in Workers |-> FALSE]
    /\ h_last_query = [g \in PgIds |-> -1]
    /\ FilterIdle
    /\ ReportIdle

\* the steps of a session already constructed
NextCalls ==
    \/ Tick
    \/ \E w \in Workers : Call(w)
    \/ \E w \in Workers : ForHead(w)
    \/ \E w \in Workers : Pick(w)
    \/ \E w \in Workers : Wait(w)
    \/ \E w \in Workers : Try(w)
    \/ \E w \in Workers : Return(w)

Next ==
    \/ Construct
    \/ Tick
    \/ \E w \in Workers : Call(w)
    \/ \E w \in Workers : ForHead(w)
    \/ \E w \in Workers : Pick(w)
    \/ \E w \in Workers : Wait(w)
    \/ \E w \in Workers : Try(w)
    \/ \E w \in Workers : Return(w)

Spec == Init /\ [][Next]_vars

SpecValidate == InitValidate /\ [][Construct]_vars

SpecAdmit == InitAdmit /\ [][Next]_vars

SpecPick == InitPick /\ [][NextPick]_vars

SpecLater == InitLater /\ [][NextCalls]_vars

SpecShared == InitShared /\ [][NextCalls]_vars

SpecFilter == InitFilter /\ [][NextFilter]_vars

SpecReport == InitReport /\ [][NextReport]_vars

\* a worker inside get_citation_count keeps running: the loop heads, the pick,
\* the sleep and the remote query, which returns or raises, are each taken in
\* the end
CallRuns(w) == WF_vars(ForHead(w) \/ Pick(w) \/ Wait(w) \/ Try(w))

SpecFair == Spec /\ \A w \in Workers : CallRuns(w)

(* ------------------------------ properties ------------------------------ *)

InPool(pool, it) == \E i \in 1 .. Len(pool) : pool[i].pg = it.pg

PgsOf(pool) == { pool[i].pg : i \in 1 .. Len(pool) }

Sentinels == { AttemptsExhausted, NoResultFound, NoProxyAvailable, PoolEmpty }

\* C1: every call of get_citation_count ends by returning a citation count or
\* one of the four sentinel outcomes; no exception escapes the call, whichever
\* step of the remote query raises.
C1_QueryAlwaysReturns ==
    \A w \in Workers :
        /\ pc[w] # "raised"
        /\ pc[w] = "done" => (result[w] \in Sentinels \/ result[w] >= 0)

\* C2: whenever the remote query of an attempt raises, the proxy chosen for
\* the attempt is removed from the pool, not marked, and the call goes on to
\* its next attempt.
C2_RaisingProxyIsEvicted ==
    \A w \in Workers :
        h_outcome[w].kind = "raise" =>
            /\ pc[w] \in {"for", "done"}
            /\ ~ InPool(proxy_pool, item[w])
            /\ attempt[w] = h_queries[w] + 1

\* C3: any two consecutive remote queries through the same proxy are at least
\* that proxy's interval apart, whatever the outcome of the earlier one: when a
\* worker is about to issue its query through the installed proxy, the last
\* query through that proxy, if any, lies at least its interval back.
C3_MinIntervalBetweenQueries ==
    \A w \in Workers :
        (pc[w] = "try" /\ h_last_query[use_proxy] # -1) =>
            now - h_last_query[use_proxy] >= valid_list[use_proxy].interval

\* C4: when the first k selected proxies of a call each raise the refusal text
\* and the next one succeeds with c citations, the call goes on after each
\* refusal and returns c; the pool has lost exactly the k refused proxies and
\* still holds the one that succeeded.
C4_RefusalsThenSuccess ==
    \A w \in Workers :
        (h_failed[w] = {} /\ h_refused[w] # {}) =>
            /\ pc[w] # "raised"
            /\ (pc[w] = "done" /\ h_outcome[w].kind = "pub") =>
                  /\ result[w] = Cites(h_outcome[w])
                  /\ Len(proxy_pool) = Len(h_pool0[w]) - Cardinality(h_refused[w])
                  /\ PgsOf(proxy_pool) = PgsOf(h_pool0[w]) \ h_refused[w]
                  /\ InPool(proxy_pool, item[w])

\* C5: when every attempt of a call raises the refusal text, the call returns
\* AttemptsExhausted with exactly max_retry proxies lost if the pool held at
\* least max_retry proxies, and PoolEmpty or NoProxyAvailable with the pool
\* emptied if it held fewer.
C5_AllAttemptsRefused ==
    \A w \in Workers :
        (h_failed[w] = {} /\ h_refused[w] # {}) =>
            /\ pc[w] # "raised"
            /\ (pc[w] = "done" /\ h_outcome[w].kind = "raise") =>
                  IF Len(h_pool0[w]) >= max_retry[w]
                  THEN /\ result[w] = AttemptsExhausted
                       /\ Len(proxy_pool) = Len(h_pool0[w]) - max_retry[w]
                  ELSE /\ result[w] \in {PoolEmpty, NoProxyAvailable}
                       /\ Len(proxy_pool) = 0

\* C6: when the remote query yields no publication, the call returns
\* NoResultFound on that attempt, makes no further attempt, and the pool is
\* what it was when the attempt started.
C6_NoResultKeepsPool ==
    \A w \in Workers :
        h_outcome[w].kind = "empty" =>
            /\ pc[w] = "done"
            /\ result[w] = NoResultFound
            /\ h_queries[w] = attempt[w]
            /\ proxy_pool = h_attempt_pool[w]

C6_Witness ==
    \E w \in Workers :
        /\ h_outcome[w].kind = "empty"
        /\ attempt[w] = 2
        /\ InPool(proxy_pool, item[w])

\* C7 as stated: with the pool empty at call time, the call returns PoolEmpty
\* for every max_retry, without any remote query, selection or sleep.
C7_EmptyPoolAnyMaxRetry ==
    \A w \in Workers :
        (pc[w] = "done" /\ Len(h_pool0[w]) = 0) =>
            /\ result[w] = PoolEmpty
            /\ h_queries[w] = 0 /\ h_picks[w] = 0 /\ h_sleeps[w] = 0

\* C7 amended: with the pool empty at call time, the call returns PoolEmpty
\* when max_retry >= 1 and AttemptsExhausted when max_retry = 0; in both cases
\* it never enters the selection, issues no remote query and does not sleep.
C7_EmptyPool ==
    \A w \in Workers :
        (~ Idle(w) /\ Len(h_pool0[w]) = 0) =>
            /\ pc[w] \in {"for", "done"}
            /\ h_queries[w] = 0 /\ h_picks[w] = 0 /\ h_sleeps[w] = 0
            /\ pc[w] = "done" =>
                  result[w] = IF max_retry[w] >= 1 THEN PoolEmpty ELSE AttemptsExhausted

C7_Witness ==
    \E w \in Workers :
        /\ pc[w] = "done"
        /\ Len(h_pool0[w]) = 0
        /\ max_retry[w] >= 1
        /\ result[w] = PoolEmpty

\* C8 as stated: _validate_proxies returns at most max_proxies records, each
\* with min_interval <= interval < max_interval.
C8_HalfOpenInterval ==
    session = "ready" =>
        /\ Len(valid_list) <= max_proxies
        /\ \A i \in 1 .. Len(valid_list) :
              /\ min_interval <= valid_list[i].interval
              /\ valid_list[i].interval < max_interval

\* C8 amended: _validate_proxies returns at most max_proxies records, each
\* with min_interval <= interval <= max_interval.
C8_ClosedInterval ==
    session = "ready" =>
        /\ Len(valid_list) <= max_proxies
        /\ \A i \in 1 .. Len(valid_list) :
              /\ min_interval <= valid_list[i].interval
              /\ valid_list[i].interval <= max_interval

C8_Witness ==
    /\ session = "ready"
    /\ Len(valid_list) = max_proxies
    /\ max_proxies >= 1
    /\ Len(probes) < Len(all_proxy_urls)
    /\ \E i \in 1 .. Len(valid_list) : valid_list[i].interval = max_interval
    /\ \E i \in 1 .. Len(valid_list) : valid_list[i].interval < max_interval

\* C9: a record that has never been used (last_access still 0.0) is in
\* _get_available_pool() at every clock reading, whatever its interval.
C9_NeverUsedIsAvailable ==
    \A i \in 1 .. Len(proxy_pool) :
        (proxy_pool[i].last_access = 0 /\ h_last_query[proxy_pool[i].pg] = -1) =>
            proxy_pool[i] \in Range(GetAvailablePool(proxy_pool, now))

\* C10: _remove_proxy is idempotent: removing a record a second time leaves the
\* pool as the first removal left it, and removing a record that is not in the
\* pool leaves the pool as it is.
C10_RemoveIdempotent ==
    \A i \in 1 .. Len(valid_list) :
        LET it == valid_list[i]
            once == RemoveProxy(proxy_pool, it)
        IN  /\ RemoveProxy(once, it) = once
            /\ ~ InPool(proxy_pool, it) => once = proxy_pool
            /\ InPool(proxy_pool, it) => Len(once) = Len(proxy_pool) - 1

C10_Witness ==
    \E w \in Workers :
        /\ pc[w] = "for"
        /\ h_outcome[w].kind = "raise"
        /\ ~ InPool(proxy_pool, item[w])
        /\ \E i \in 1 .. Len(proxy_pool) : proxy_pool[i].proxy_url = item[w].proxy_url

\* C11: after construction the pool never grows, and every record returned by
\* _pick_proxy_generator is a record of the pool at the moment it is returned.
C11_PoolShrinksPickInPool ==
    [][ /\ session = "ready" => Len(proxy_pool') <= Len(proxy_pool)
        /\ \A w \in Workers :
              (pc[w] = "pick" /\ pc'[w] = "try") =>
                  /\ InPool(proxy_pool', item'[w])
                  /\ item'[w] \in Range(proxy_pool') ]_vars

C11_Witness ==
    \E w \in Workers :
        /\ pc[w] = "try"
        /\ Len(proxy_pool) < Len(valid_list)
        /\ Len(proxy_pool) >= 2
        /\ InPool(proxy_pool, item[w])

\* C12: when every record of the pool is cooling down, _get_available_pool()
\* is empty and _wait_for_any_proxy sleeps for the smallest remaining cooldown
\* interval - (now - last_access) over all records, raised to the 0.1 s floor
\* when smaller (time.sleep lasting at most MaxOversleep longer); for a pool
\* of one record whose last_access is now, the wait is that record's interval.
C12_WaitIsShortestCooldown ==
    [][ \A w \in Workers :
          ( /\ pc[w] = "wait" /\ pc'[w] = "pick"
            /\ Len(proxy_pool) > 0
            /\ \A i \in 1 .. Len(proxy_pool) :
                  now - proxy_pool[i].last_access < proxy_pool[i].interval ) =>
              LET shortest == MinOf({ proxy_pool[i].interval - (now - proxy_pool[i].last_access) :
                                        i \in 1 .. Len(proxy_pool) })
                  asked == IF shortest < WaitFloor THEN WaitFloor ELSE shortest
              IN  /\ GetAvailablePool(proxy_pool, now) = <<>>
                  /\ MinWait(proxy_pool, now) = asked
                  /\ (now' - now) \in asked .. (asked + MaxOversleep)
                  /\ (Len(proxy_pool) = 1 /\ proxy_pool[1].last_access = now) =>
                        asked = proxy_pool[1].interval ]_vars

C12_Witness ==
    \E w \in Workers :
        /\ pc[w] = "pick"
        /\ pick_try[w] = 1
        /\ h_sleeps[w] = 1
        /\ Len(proxy_pool) = 1
        /\ now - proxy_pool[1].last_access = proxy_pool[1].interval

\* C13: each of the four terminal outcomes of get_citation_count is reported
\* by its own value, the four values are pairwise distinct, and none of them
\* is the value returned by a successful query, which is the publication's
\* non-negative num_citations, or 0 when the field is absent.
C13_OutcomesHaveOwnValues ==
    /\ Cardinality(Sentinels) = 4
    /\ \A w \in Workers :
          pc[w] = "done" =>
              LET queried == h_outcome[w].kind \in {"pub", "empty"} IN
              /\ h_outcome[w].kind = "pub" =>
                    /\ result[w] = IF h_outcome[w].has_citations
                                   THEN h_outcome[w].num_citations ELSE 0
                    /\ result[w] >= 0
                    /\ result[w] \notin Sentinels
              /\ result[w] = NoResultFound <=> h_outcome[w].kind = "empty"
              /\ result[w] = AttemptsExhausted <=>
                    (~ queried /\ attempt[w] > max_retry[w])
              /\ result[w] = PoolEmpty <=>
                    (~ queried /\ attempt[w] <= max_retry[w] /\ Len(proxy_pool) = 0)
              /\ result[w] = NoProxyAvailable <=>
                    (~ queried /\ attempt[w] <= max_retry[w] /\ Len(proxy_pool) > 0)

C13_Witness ==
    \E w \in Workers :
        /\ pc[w] = "done"
        /\ h_outcome[w].kind = "pub"
        /\ ~ h_outcome[w].has_citations
        /\ result[w] = 0

\* C14: no two records of the pool have the same address, for every candidate
\* list handed to the constructor (lists that repeat an address included),
\* after construction and after any sequence of get_citation_count calls.
C14_AddressesUnique ==
    \A i, j \in 1 .. Len(proxy_pool) :
        proxy_pool[i].proxy_url = proxy_pool[j].proxy_url => i = j

\* C15: every record of the pool was appended by _validate_proxies after its
\* probe returned status 200 without raising, and a record removed from the
\* pool never comes back: it is in no later pool of the session and is never
\* returned by _pick_proxy_generator again.
C15_AdmittedByProbeNeverReadmitted ==
    /\ [](\A i \in 1 .. Len(proxy_pool) :
            \E k \in 1 .. Len(probes) :
                /\ probes[k].pg = proxy_pool[i].pg
                /\ probes[k].proxy_url = proxy_pool[i].proxy_url
                /\ probes[k].outcome.single_proxy
                /\ ~ probes[k].outcome.raised
                /\ probes[k].outcome.status_code = 200)
    /\ [][ session = "ready" =>
              \A g \in PgIds \ PgsOf(proxy_pool) :
                  /\ g \notin PgsOf(proxy_pool')
                  /\ \A w \in Workers :
                        (pc[w] = "pick" /\ pc'[w] = "try") => item'[w].pg # g ]_vars

C15_Witness ==
    \E w \in Workers :
        /\ pc[w] = "try"
        /\ Len(valid_list) < Len(probes)
        /\ Len(proxy_pool) < Len(valid_list)
        /\ h_refused[w] = {} /\ h_failed[w] = {}

\* C16: _validate_proxies has no side effect: when it returns, everything the
\* caller can see other than the returned list is as it was, the candidate
\* list that was passed in included (same elements in the same order).
C16_ValidateLeavesCandidates ==
    [][ (session = "new" /\ session' = "ready") =>
            /\ all_proxy_urls' = all_proxy_urls
            /\ UNCHANGED <<max_proxies, min_interval, max_interval, probe_result,
                           now, use_proxy>> ]_vars

\* C17: _pick_proxy_generator runs at most max_pick_retry iterations; in each
\* one it returns None at once, without sleeping, if the pool is empty, returns
\* a record of _get_available_pool() if that list is not empty, and otherwise
\* sleeps exactly once, for the shortest remaining cooldown raised to the
\* 0.1 s floor, and retries; it returns None when max_pick_retry iterations
\* have passed without an available record. It never sleeps on an empty pool.
C17_PickLoop ==
    [][ \A w \in Workers :
          /\ pick_try'[w] <= MaxPickRetry
          /\ (pc[w] = "pick" /\ pc'[w] # "pick") =>
                IF pick_try[w] >= MaxPickRetry \/ Len(proxy_pool) = 0
                THEN /\ pc'[w] = "done"
                     /\ item'[w] = NoneItem
                     /\ result'[w] = NoProxyAvailable
                     /\ now' = now /\ h_sleeps'[w] = h_sleeps[w]
                ELSE IF \E i \in 1 .. Len(proxy_pool) :
                           now - proxy_pool[i].last_access >= proxy_pool[i].interval
                THEN /\ pc'[w] = "try"
                     /\ item'[w] \in Range(proxy_pool)
                     /\ now - item'[w].last_access >= item'[w].interval
                     /\ now' = now /\ h_sleeps'[w] = h_sleeps[w]
                ELSE /\ pc'[w] = "wait"
                     /\ now' = now /\ h_sleeps'[w] = h_sleeps[w]
          /\ pc[w] = "wait" =>
                /\ pc'[w] = "pick"
                /\ pick_try'[w] = pick_try[w] + 1
                /\ IF Len(proxy_pool) = 0
                   THEN now' = now /\ h_sleeps'[w] = h_sleeps[w]
                   ELSE LET shortest == MinOf({ proxy_pool[i].interval
                                                  - (now - proxy_pool[i].last_access) :
                                                i \in 1 .. Len(proxy_pool) })
                            asked == IF shortest < WaitFloor THEN WaitFloor ELSE shortest
                        IN  /\ h_sleeps'[w] = h_sleeps[w] + 1
                            /\ (now' - now) \in asked .. (asked + MaxOversleep) ]_vars

C17_Witness ==
    \E w \in Workers :
        /\ pc[w] = "done"
        /\ result[w] = NoProxyAvailable
        /\ pick_try[w] = MaxPickRetry
        /\ h_sleeps[w] = MaxPickRetry
        /\ Len(proxy_pool) > 0

\* C18: every call of get_citation_count terminates: it issues at most
\* max_retry remote queries and sleeps at most max_retry * max_pick_retry
\* times, and from every state of a call a sentinel or a citation count is
\* eventually returned, provided each remote query returns or raises.
C18_CallTerminates ==
    /\ [](\A w \in Workers :
            /\ h_queries[w] <= max_retry[w]
            /\ h_sleeps[w] <= max_retry[w] * MaxPickRetry)
    /\ \A w \in Workers :
          (pc[w] \in {"for", "pick", "wait", "try"}) ~>
              (pc[w] = "done" /\ (result[w] \in Sentinels \/ result[w] >= 0))

\* C19: on a successful attempt the only change to the pool is that the
\* last_access of the record chosen for the attempt is set to the current
\* time: no record is removed, and every other record, and the address and
\* interval of the chosen one, are as they were when the attempt started.
C19_SuccessMarksOnlyChosen ==
    \A w \in Workers :
        (pc[w] = "done" /\ h_outcome[w].kind = "pub") =>
            /\ Len(proxy_pool) = Len(h_attempt_pool[w])
            /\ Cardinality({ i \in 1 .. Len(proxy_pool) : proxy_pool[i].pg = item[w].pg }) = 1
            /\ \A i \in 1 .. Len(proxy_pool) :
                  IF h_attempt_pool[w][i].pg = item[w].pg
                  THEN /\ proxy_pool[i].last_access = now
                       /\ proxy_pool[i].interval = h_attempt_pool[w][i].interval
                       /\ proxy_pool[i].proxy_url = h_attempt_pool[w][i].proxy_url
                       /\ proxy_pool[i].pg = h_attempt_pool[w][i].pg
                  ELSE proxy_pool[i] = h_attempt_pool[w][i]

C19_Witness ==
    \E w \in Workers :
        /\ pc[w] = "done"
        /\ h_outcome[w].kind = "pub"
        /\ \E i \in 1 .. Len(proxy_pool) :
              /\ proxy_pool[i].proxy_url = item[w].proxy_url
              /\ proxy_pool[i].pg # item[w].pg
              /\ proxy_pool[i].last_access # now
        /\ \E i \in 1 .. Len(proxy_pool) :
              proxy_pool[i].pg = item[w].pg /\ proxy_pool[i].last_access = now

\* C20: _validate_proxies examines each entry of the candidate list at most
\* once, in the shuffled order, stops as soon as max_proxies entries have been
\* accepted, and returns fewer than max_proxies records only when every entry
\* has been tried: with a fixed pass/fail result per candidate the result has
\* min(max_proxies, number of entries that pass) records, for every shuffle.
C20_ValidateSize ==
    session = "ready" =>
        LET passing == { i \in 1 .. Len(all_proxy_urls) :
                           /\ probe_result[all_proxy_urls[i]].single_proxy
                           /\ ~ probe_result[all_proxy_urls[i]].raised
                           /\ probe_result[all_proxy_urls[i]].status_code = 200 }
            smaller == IF max_proxies <= Cardinality(passing)
                       THEN max_proxies ELSE Cardinality(passing)
        IN  /\ Len(probes) <= Len(all_proxy_urls)
            /\ \A k \in 1 .. Len(probes) : probes[k].proxy_url = all_proxy_urls[k]
            /\ Len(valid_list) = smaller
            /\ Len(valid_list) < max_proxies => Len(probes) = Len(all_proxy_urls)
            /\ Len(valid_list) = max_proxies =>
                  \/ max_proxies = 0 /\ probes = <<>>
                  \/ max_proxies > 0 /\ probes[Len(probes)].pg = max_proxies

C20_Witness ==
    /\ session = "ready"
    /\ max_proxies >= 1
    /\ Len(valid_list) = max_proxies
    /\ Len(probes) < Len(all_proxy_urls)
    /\ \E k \in 1 .. Len(probes) : probes[k].pg = 0

\* C21: with one worker, a clock that never goes back and a sleep that lasts at
\* least as long as asked, _pick_proxy_generator called by get_citation_count
\* returns a record after at most one wait (after the wait the record with the
\* shortest remaining cooldown is available), so get_citation_count never
\* returns NoProxyAvailable: its failures are PoolEmpty, NoResultFound and
\* AttemptsExhausted only.
C21_OneWaitSuffices ==
    \A w \in Workers :
        /\ pick_try[w] <= 1
        /\ pc[w] \in {"pick", "wait"} => Len(proxy_pool) > 0
        /\ (pc[w] = "pick" /\ pick_try[w] = 1) =>
              \E i \in 1 .. Len(proxy_pool) :
                  now - proxy_pool[i].last_access >= proxy_pool[i].interval
        /\ pc[w] = "done" =>
              /\ result[w] # NoProxyAvailable
              /\ result[w] < 0 =>
                    result[w] \in {PoolEmpty, NoResultFound, AttemptsExhausted}

C21_Witness ==
    \E w \in Workers :
        /\ pc[w] = "try"
        /\ pick_try[w] = 1
        /\ h_sleeps[w] >= 1
        /\ Len(proxy_pool) >= 2
        /\ item[w] \in Range(GetAvailablePool(proxy_pool, now))
        /\ Len(GetAvailablePool(proxy_pool, now)) = 1

\* both workers hold the same record, picked before either has marked it
SamePick(w) ==
    /\ pc[w] = "try"
    /\ \E v \in Workers \ {w} : pc[v] = "try" /\ item[v].pg = item[w].pg

\* the worker is about to query through another proxy than the one it picked
WrongTransport(w) == pc[w] = "try" /\ use_proxy # item[w].pg

\* the worker's last query went through one proxy and its failure removed
\* another, which no query has ever gone through
WrongEviction(w) ==
    /\ pc[w] = "for"
    /\ h_outcome[w].kind = "raise"
    /\ ~ InPool(proxy_pool, item[w])
    /\ h_last_query[item[w].pg] = -1

\* C22: the pool operations are consistent only when the calls are
\* serialized: two workers holding the same record before either marks it, a
\* query issued through another proxy than the one the worker picked, and an
\* eviction applied to a proxy that was not the one queried all arise only
\* for a worker whose call overlapped another worker's call; with the calls
\* one after the other none of them is reachable.
C22_ConsistentOnlySerialized ==
    \A w \in Workers :
        (SamePick(w) \/ WrongTransport(w) \/ WrongEviction(w)) => h_overlap[w]

C22_Witness ==
    \E w \in Workers :
        /\ WrongEviction(w)
        /\ h_overlap[w]
        /\ \E g \in PgsOf(proxy_pool) : h_last_query[g] # -1

\* C23: the offline filter runs its stages on each candidate in the order
\* blacklist, HTTPS probe with status 200, transport setup, one test search,
\* and stops at the first stage that fails; a blacklisted address is rejected
\* with no network request; the lines written to the output file are exactly
\* the input addresses that passed every stage, one address per line; and
\* when no address passes, the output file is not written.
C23_FilterWritesPassingAddresses ==
    f_pc = "done" =>
        LET passed == SelectSeq(proxies_list, LAMBDA a :
                          /\ a # SuspiciousAddress
                          /\ ~ stage_result[a].raised
                          /\ stage_result[a].status_code = 200
                          /\ stage_result[a].single_proxy
                          /\ stage_result[a].search = "ok")
        IN  /\ Len(f_stages) = Len(proxies_list)
            /\ \A k \in 1 .. Len(f_stages) :
                  LET a == f_stages[k].proxy_url
                      o == stage_result[a]
                      run == f_stages[k].stages
                  IN  /\ a = proxies_list[k]
                      /\ run[1] = "blacklist"
                      /\ a = SuspiciousAddress => run = <<"blacklist">>
                      /\ "search" \in Range(run) => o.single_proxy
                      /\ "setup" \in Range(run) => (~ o.raised /\ o.status_code = 200)
                      /\ "probe" \in Range(run) => a # SuspiciousAddress
                      /\ \A n \in 1 .. Len(run) :
                            run[n] = <<"blacklist", "probe", "setup", "search">>[n]
            /\ Range(proxies_list) = Range(input_csv) \ { "" }
            /\ Len(passed) = 0 => output_csv_file \in
                  { [exists |-> FALSE, lines |-> <<>>],
                    [exists |-> TRUE, lines |-> <<PlainAddress>>] }
            /\ Len(passed) > 0 =>
                  /\ output_csv_file.exists
                  /\ output_csv_file.lines = passed

\* C24: in output_csv, for each result row the citation count is queried
\* again exactly when the earlier report has no value for its methodology or
\* the value is the error text; any other earlier value (a "not found" text
\* included) is written back unchanged and no query is issued for the row.
C24_RequeryOnlyWithoutValue ==
    \A k \in 1 .. Len(r_log) :
        /\ r_log[k].queried <=> (~ r_log[k].had_prior \/ r_log[k].prior = "エラー")
        /\ ~ r_log[k].queried =>
              /\ r_log[k].written
              /\ r_log[k].citations = r_log[k].prior
              /\ \E i \in 1 .. Len(csv_file.rows) :
                    /\ csv_file.rows[i].methodology = r_log[k].methodology
                    /\ csv_file.rows[i].citations = r_log[k].prior

====
